---- MODULE Spec2Model ----
(***************************************************************************)
(* A model of package stx (restayway/stx): a gorm store handle carried in  *)
(* a context.Context, with Begin/Commit/Rollback, WithTransaction,         *)
(* WithDefer and the OnSuccess callback queue.                             *)
(*                                                                         *)
(* The package source is the first Go listing of CONTRIBUTING.md (lines    *)
(* 102-374).  The gorm store gorm.DB is an external collaborator; it is    *)
(* modelled at its interface: BeginTx, Commit, Rollback, Transaction and   *)
(* the two connection-pool fields IsTx compares.                           *)
(***************************************************************************)
EXTENDS Integers, Sequences, FiniteSets, TLC

\* ---------------------------------------------------------------- bounds
\* WithDefer scopes the program may open.
MaxScopes == 1
\* OnSuccess calls with a non-nil callback the program may make.
MaxCallbacks == 2

VARIABLES
    handles,    \* the *STX objects: handles[h] = [db, callbacks]
    txs,        \* the store's transactions: txs[t] = [state, writes]
    scopes,     \* the WithDefer / WithTransaction calls made so far
    log,        \* the callbacks invoked so far, in invocation order
    ncb,        \* number of non-nil callbacks handed to OnSuccess so far
    reg,        \* reg[cb] = the context callback cb was handed to OnSuccess with
    lateReq,    \* the store was sent a commit or rollback for a finished transaction
    last        \* the last Commit / Rollback call observed: context, result, store called

vars == <<handles, txs, scopes, log, ncb, reg, lateReq, last>>

\* ---------------------------------------------------------------- errors
\* An error value is its Unwrap chain of messages; the nil error is <<>>.
NoErr == <<>>

\* errors.New(str)
ErrorsNew(str) == <<str>>

\* gorm.ErrInvalidTransaction
ErrInvalidTransaction == <<"invalid transaction">>

\* sql.ErrTxDone, what a finished transaction answers to Commit and Rollback
ErrTxDone == <<"sql: transaction has already been committed or rolled back">>

\* the error a failing commit / rollback / begin of the store reports
ErrStore == <<"store failure">>

\* the error a unit of work or protected region returns
ErrBusiness == <<"business error">>

\* newSTXError(message, err) = &STXError{Message: message, Err: err}
newSTXError(message, err) == <<message>> \o err

\* STXError.Unwrap
Unwrap(e) == Tail(e)

\* Panic payloads: an error value, a string, a value of another type.
Payloads ==
    { [type |-> "error",  text |-> "boom"],
      [type |-> "string", text |-> "test panic"],
      [type |-> "other",  text |-> "42"] }

\* panicError(v)
panicError(v) ==
    IF v.type = "error" THEN newSTXError("recovered from panic", <<v.text>>)
    ELSE IF v.type = "string" THEN newSTXError("recovered from panic", ErrorsNew(v.text))
    ELSE ErrorsNew("recovered from panic")

\* ---------------------------------------------------------------- store
\* Connection pools: the nil interface, the root pool sql.DB, an open
\* transaction's connection sql.Tx, and the typed-nil nil *sql.Tx that a
\* failed BeginTx leaves in Statement.ConnPool.
NilConn  == <<>>
RootPool == <<"pool">>
NilTx    == <<"niltx">>
TxConn(t) == <<"tx", t>>

IsTxConn(c) == Len(c) = 2

\* A *gorm.DB: Statement.ConnPool and Statement.DB.ConnPool; NilDB is the nil pointer.
NilDB  == [isNil |-> TRUE,  ConnPool |-> NilConn,  DBConnPool |-> NilConn]
DB(c)  == [isNil |-> FALSE, ConnPool |-> c,        DBConnPool |-> RootPool]
RootDB == DB(RootPool)

\* A fresh transaction of the store.
NewTx == [state |-> "open", writes |-> {}]

TxDone(tx) == tx.state \in {"committed", "rolledback"}

\* sql.Tx.Commit on transaction t of the store state T; ok = the store
\* carries the commit out.  A finished transaction answers ErrTxDone (late: the
\* request reached a transaction already committed or rolled back); a failed
\* commit leaves the transaction pending.
TxCommit(T, t, ok) ==
    IF TxDone(T[t])
    THEN [txs |-> T, err |-> ErrTxDone, late |-> TRUE]
    ELSE IF ok
    THEN [txs |-> [T EXCEPT ![t].state = "committed"], err |-> NoErr, late |-> FALSE]
    ELSE [txs |-> T, err |-> ErrStore, late |-> FALSE]

\* sql.Tx.Rollback, likewise.
TxRollback(T, t, ok) ==
    IF TxDone(T[t])
    THEN [txs |-> T, err |-> ErrTxDone, late |-> TRUE]
    ELSE IF ok
    THEN [txs |-> [T EXCEPT ![t].state = "rolledback"], err |-> NoErr, late |-> FALSE]
    ELSE [txs |-> T, err |-> ErrStore, late |-> FALSE]

\* gorm.DB.Begin on the root handle: a new transaction, or on failure a
\* handle whose ConnPool is the typed nil the failed BeginTx returned.
DBBegin(T, db, ok) ==
    IF ok
    THEN [txs |-> Append(T, NewTx), db |-> DB(TxConn(Len(T) + 1))]
    ELSE [txs |-> T, db |-> DB(NilTx)]

\* gorm.DB.Commit().Error
DBCommit(T, db, ok) ==
    IF IsTxConn(db.ConnPool) THEN TxCommit(T, db.ConnPool[2], ok)
    ELSE [txs |-> T, err |-> ErrInvalidTransaction, late |-> FALSE]

\* gorm.DB.Rollback().Error
DBRollback(T, db, ok) ==
    IF IsTxConn(db.ConnPool) THEN TxRollback(T, db.ConnPool[2], ok)
    ELSE IF db.ConnPool = NilTx THEN [txs |-> T, err |-> NoErr, late |-> FALSE]
    ELSE [txs |-> T, err |-> ErrInvalidTransaction, late |-> FALSE]

\* ---------------------------------------------------------------- contexts
\* A context.Context is known to the package only through ctx == nil and
\* ctx.Value(txContextKey): no value, a value that is not a *STX, or handle h.
NilCtx  == [kind |-> "nil",        h |-> 0]
BgCtx   == [kind |-> "background", h |-> 0]
BadCtx  == [kind |-> "badvalue",   h |-> 0]
HCtx(h) == [kind |-> "stx",        h |-> h]

\* &STX{db: db}: mu is 0 when unlocked, else the holder of the writer lock.
STX(db) == [mu |-> 0, db |-> db, callbacks |-> <<>>]

\* New(context.Background(), db) yields handle 1.
RootCtx == HCtx(1)

\* ---------------------------------------------------------------- package
\* A plausible slip: the store of the outermost handle of the chain is returned.
CurrentOutermost(ctx) ==
    IF ctx.kind = "nil" THEN NilDB
    ELSE IF ctx.kind = "background" THEN NilDB
    ELSE IF ctx.kind # "stx" THEN NilDB
    ELSE handles[1].db

Current(ctx) ==
    IF ctx.kind = "nil" THEN NilDB
    ELSE IF ctx.kind = "background" THEN NilDB
    ELSE IF ctx.kind # "stx" THEN NilDB
    ELSE handles[ctx.h].db

\* A plausible slip: the connection is not compared with the store's own.
IsTxNonNil(ctx) ==
    LET db == Current(ctx) IN
    IF db = NilDB THEN FALSE
    ELSE db.ConnPool # NilConn

IsTx(ctx) ==
    LET db == Current(ctx) IN
    IF db = NilDB THEN FALSE
    ELSE db.ConnPool # NilConn /\ db.ConnPool # db.DBConnPool

\* return nil without a call of the store
Returned(T) == [txs |-> T, err |-> NoErr, late |-> FALSE, sent |-> FALSE]

\* return of what the store call r answered
Forwarded(r) == [txs |-> r.txs, err |-> r.err, late |-> r.late, sent |-> TRUE]

\* A plausible slip: no IsTx test before the store is called.
CommitForwardsAlways(T, ctx, ok) ==
    LET db == Current(ctx) IN
    IF db = NilDB THEN Returned(T)
    ELSE Forwarded(DBCommit(T, db, ok))

\* Commit(ctx): the transactions after the call, the error returned, whether
\* the store was called (sent) and whether it was called for a finished
\* transaction (late).
Commit(T, ctx, ok) ==
    LET db == Current(ctx) IN
    IF db = NilDB THEN Returned(T)
    ELSE IF ~IsTx(ctx) THEN Returned(T)
    ELSE Forwarded(DBCommit(T, db, ok))

Rollback(T, ctx, ok) ==
    LET db == Current(ctx) IN
    IF db = NilDB THEN Returned(T)
    ELSE IF ~IsTx(ctx) THEN Returned(T)
    ELSE Forwarded(DBRollback(T, db, ok))

\* A plausible slip: without a store a new context with an empty handle is
\* returned.
BeginWrapsNil(H, T, ctx, ok) ==
    LET db == Current(ctx) IN
    IF db = NilDB THEN [handles |-> Append(H, STX(NilDB)), txs |-> T, ctx |-> HCtx(Len(H) + 1)]
    ELSE LET b == DBBegin(T, db, ok) IN
         [handles |-> Append(H, STX(b.db)), txs |-> b.txs, ctx |-> HCtx(Len(H) + 1)]

\* A plausible slip: the transaction is stored in the handle the context
\* already carries, and that context is returned.
BeginInPlace(H, T, ctx, ok) ==
    LET db == Current(ctx) IN
    IF db = NilDB THEN [handles |-> H, txs |-> T, ctx |-> ctx]
    ELSE LET b == DBBegin(T, db, ok) IN
         [handles |-> [H EXCEPT ![ctx.h].db = b.db], txs |-> b.txs, ctx |-> ctx]

\* A plausible slip: a transaction that is open is joined, none is begun.
BeginJoinsOpenTx(H, T, ctx, ok) ==
    LET db   == Current(ctx)
        open == {t \in 1..Len(T) : T[t].state = "open"} IN
    IF db = NilDB THEN [handles |-> H, txs |-> T, ctx |-> ctx]
    ELSE IF open # {}
    THEN [handles |-> Append(H, STX(DB(TxConn(CHOOSE t \in open : TRUE)))),
          txs |-> T, ctx |-> HCtx(Len(H) + 1)]
    ELSE LET b == DBBegin(T, db, ok) IN
         [handles |-> Append(H, STX(b.db)), txs |-> b.txs, ctx |-> HCtx(Len(H) + 1)]

\* Begin(ctx): the handles and transactions after the call, and the context returned.
Begin(H, T, ctx, ok) ==
    LET db == Current(ctx) IN
    IF db = NilDB THEN [handles |-> H, txs |-> T, ctx |-> ctx]
    ELSE LET b == DBBegin(T, db, ok) IN
         [handles |-> Append(H, STX(b.db)), txs |-> b.txs, ctx |-> HCtx(Len(H) + 1)]

\* A plausible slip: the invalid-value branch returns without calling back.
OnSuccessDropsInvalid(H, L, ctx, cb) ==
    IF ctx.kind = "nil" \/ cb = 0 THEN [handles |-> H, log |-> L]
    ELSE IF ctx.kind = "background" THEN [handles |-> H, log |-> Append(L, cb)]
    ELSE IF ctx.kind # "stx" THEN [handles |-> H, log |-> L]
    ELSE [handles |-> [H EXCEPT ![ctx.h].callbacks = Append(@, cb)], log |-> L]

\* A plausible slip: no test for a nil callback.
OnSuccessQueuesNil(H, L, ctx, cb) ==
    IF ctx.kind = "nil" THEN [handles |-> H, log |-> L]
    ELSE IF ctx.kind = "background" THEN [handles |-> H, log |-> Append(L, cb)]
    ELSE IF ctx.kind # "stx" THEN [handles |-> H, log |-> Append(L, cb)]
    ELSE [handles |-> [H EXCEPT ![ctx.h].callbacks = Append(@, cb)], log |-> L]

\* A plausible slip: the callback is put in front of the queue.
OnSuccessPrepends(H, L, ctx, cb) ==
    IF ctx.kind = "nil" \/ cb = 0 THEN [handles |-> H, log |-> L]
    ELSE IF ctx.kind = "background" THEN [handles |-> H, log |-> Append(L, cb)]
    ELSE IF ctx.kind # "stx" THEN [handles |-> H, log |-> Append(L, cb)]
    ELSE [handles |-> [H EXCEPT ![ctx.h].callbacks = <<cb>> \o @], log |-> L]

\* OnSuccess(ctx, callback): cb = 0 is the nil callback.  The handles and the
\* log (the callbacks invoked) after the call.
OnSuccess(H, L, ctx, cb) ==
    IF ctx.kind = "nil" \/ cb = 0 THEN [handles |-> H, log |-> L]
    ELSE IF ctx.kind = "background" THEN [handles |-> H, log |-> Append(L, cb)]
    ELSE IF ctx.kind # "stx" THEN [handles |-> H, log |-> Append(L, cb)]
    ELSE [handles |-> [H EXCEPT ![ctx.h].callbacks = Append(@, cb)], log |-> L]

\* The copy of the queue that WithDefer's cleanup and WithTransaction take
\* under the reader lock.
Snapshot(ctx) ==
    IF ctx.kind = "stx" THEN handles[ctx.h].callbacks ELSE <<>>

\* stx.mu held by a reader.
ReadLocked == 0 - 1

\* A plausible slip: the reader lock is released by a deferred RUnlock, after
\* the callbacks.
DrainLockHeld(H, h) == [H EXCEPT ![h].mu = ReadLocked]

\* The lock of handle h when the drain invokes the first callback: RLock, the
\* copy, RUnlock, and only then the loop over the copy.
DrainLock(H, h) == [H EXCEPT ![h].mu = 0]

\* A plausible slip: the loop walks the handle's queue by index, not the copy.
DrainOverLive(H, sc) == IF sc.ctx.kind = "stx" THEN H[sc.ctx.h].callbacks ELSE <<>>

\* for _, callback := range callbacks: the sequence the loop walks is the copy.
DrainOver(H, sc) == sc.snap

\* recover() returned nil
NoPanic == [type |-> "none", text |-> ""]

\* What a cleanup call leaves: the store's transactions, whether the request
\* reached a finished transaction, *err, the request sent and its answer, and
\* the copy of the queue to invoke (drain).
CleanupResult(res, slot, req, drain, snap) ==
    [txs |-> res.txs, late |-> res.late, sent |-> res.sent, slot |-> slot, req |-> req,
     reqErr |-> res.err, drain |-> drain, snap |-> snap]

\* A plausible slip: *err is assigned without the test of err.
RecoverBranchAlwaysReports(T, txCtx, hasSlot, slot, r, ok) ==
    CleanupResult(Rollback(T, txCtx, ok), panicError(r), "rollback", FALSE, <<>>)

\* cleanup, recover() # nil: roll back, report the panic, return.
RecoverBranch(T, txCtx, hasSlot, slot, r, ok) ==
    CleanupResult(Rollback(T, txCtx, ok),
                  IF hasSlot THEN panicError(r) ELSE slot, "rollback", FALSE, <<>>)

\* A plausible slip: a failed rollback is reported in *err.
ErrorBranchReportsRollback(T, txCtx, slot, ok) ==
    LET rb == Rollback(T, txCtx, ok) IN
    CleanupResult(rb, IF rb.err # NoErr THEN rb.err ELSE slot, "rollback", FALSE, <<>>)

\* cleanup, err # nil and *err # nil: roll back and return.
ErrorBranch(T, txCtx, slot, ok) ==
    CleanupResult(Rollback(T, txCtx, ok), slot, "rollback", FALSE, <<>>)

\* A plausible slip: no return after a failed commit, the callbacks run.
CommitBranchDrainsAlways(T, txCtx, hasSlot, slot, ok) ==
    LET c == Commit(T, txCtx, ok) IN
    CleanupResult(c,
                  IF c.err # NoErr /\ hasSlot
                  THEN newSTXError("failed to commit transaction", c.err) ELSE slot,
                  "commit", TRUE, Snapshot(txCtx))

\* A plausible slip: the store's error is not wrapped.
CommitBranchNoWrap(T, txCtx, hasSlot, slot, ok) ==
    LET c == Commit(T, txCtx, ok) IN
    IF c.err # NoErr
    THEN CleanupResult(c, IF hasSlot THEN ErrorsNew("failed to commit transaction") ELSE slot,
                       "commit", FALSE, <<>>)
    ELSE CleanupResult(c, slot, "commit", TRUE, Snapshot(txCtx))

\* cleanup, otherwise: commit; on failure report it and return; on success
\* copy the queue for the drain.
CommitBranch(T, txCtx, hasSlot, slot, ok) ==
    LET c == Commit(T, txCtx, ok) IN
    IF c.err # NoErr
    THEN CleanupResult(c,
                       IF hasSlot THEN newSTXError("failed to commit transaction", c.err)
                       ELSE slot,
                       "commit", FALSE, <<>>)
    ELSE CleanupResult(c, slot, "commit", TRUE, Snapshot(txCtx))

\* A plausible slip: the test of *err comes before the test of recover().
CleanupErrorFirst(T, txCtx, hasSlot, slot, r, ok) ==
    IF hasSlot /\ slot # NoErr THEN ErrorBranch(T, txCtx, slot, ok)
    ELSE IF r # NoPanic THEN RecoverBranch(T, txCtx, hasSlot, slot, r, ok)
    ELSE CommitBranch(T, txCtx, hasSlot, slot, ok)

\* The cleanup closure of WithDefer, up to the copy of the queue: hasSlot = the
\* err pointer is not nil, slot = *err, r = what recover() returned, ok = the
\* store carries out the request it is sent.
Cleanup(T, txCtx, hasSlot, slot, r, ok) ==
    IF r # NoPanic THEN RecoverBranch(T, txCtx, hasSlot, slot, r, ok)
    ELSE IF hasSlot /\ slot # NoErr THEN ErrorBranch(T, txCtx, slot, ok)
    ELSE CommitBranch(T, txCtx, hasSlot, slot, ok)

\* ---------------------------------------------------------------- program
\* db.Create(...) by scope s, db being Current(ctx): a write inside the pending
\* transaction the store handle is bound to.
Write(T, db, s) ==
    IF db # NilDB /\ IsTxConn(db.ConnPool) /\ db.ConnPool[2] \in DOMAIN T
       /\ ~TxDone(T[db.ConnPool[2]])
    THEN [T EXCEPT ![db.ConnPool[2]].writes = @ \cup {s}]
    ELSE T

\* The record scope s wrote is visible through the root store.
Visible(s) == \E t \in 1..Len(txs) : txs[t].state = "committed" /\ s \in txs[t].writes

\* A scope: one WithDefer call with its protected region and cleanup.
\*   in, ctx   the context given and the context returned
\*   pc        "body" (region running), "drain" (cleanup invoking callbacks),
\*             "callback" (inside a callback, where the drain is followed call
\*             by call), "panic" (a callback panicked and the panic left
\*             cleanup), "done"
\*   given, slot   *err when cleanup was entered, *err now
\*   recovered what recover() returned in the cleanup call
\*   req, reqErr   what the cleanup call called, Commit or Rollback, and the answer
\*   sent      the cleanup call called the store
\*   snap      the callbacks of the copy still to invoke
\*   taken     len(callbacks) of the copy when it was made
\*   cb        the callback of an OnSuccess call in progress (concurrent calls),
\*             or the callback the drain is invoking
\*   ticket    the place of a concurrent OnSuccess call among the callers that
\*             have acquired stx.mu
\*   wants     the callback being invoked has yet to call OnSuccess
\*   idx       the number of callbacks the drain has invoked, where the drain
\*             is followed call by call (snap then stays the whole copy)
\*   hasSlot   the err pointer given to cleanup is not nil
\*   calls     the number of times cleanup has been called
NewScope(kind, in, ctx) ==
    [kind |-> kind, in |-> in, ctx |-> ctx, pc |-> "body",
     given |-> NoErr, slot |-> NoErr, recovered |-> NoPanic,
     req |-> "none", reqErr |-> NoErr, sent |-> FALSE, snap |-> <<>>, cb |-> 0,
     taken |-> 0, ticket |-> 0, wants |-> FALSE, idx |-> 0,
     hasSlot |-> TRUE, calls |-> 0]

Active(s) == scopes[s].pc # "done"

\* The WithDefer calls among the scopes.
DeferScopes == {s \in 1..Len(scopes) : scopes[s].kind = "defer"}

\* The program is one thread with a call stack: the scopes not yet done are
\* nested, the innermost is the one opened last.
Top == IF \E s \in 1..Len(scopes) : Active(s)
       THEN CHOOSE s \in 1..Len(scopes) : Active(s) /\ \A u \in 1..Len(scopes) : Active(u) => u <= s
       ELSE 0

\* The contexts the running code holds: the literal ones, the root context and
\* those of the scopes it is inside of.
AllCtx == {NilCtx, BgCtx, BadCtx, RootCtx}
              \cup {scopes[s].ctx : s \in {u \in 1..Len(scopes) : Active(u)}}

\* Those of them that carry a handle.
HandleCtx == {ctx \in AllCtx : ctx.kind = "stx"}

\* While callbacks are being invoked, and until the store has ended the scope
\* that invoked them, nothing else runs.
Busy == \E s \in 1..Len(scopes) : scopes[s].pc \in {"drain", "callback", "end"}

\* No Commit or Rollback call observed.
NoCall == [op |-> "none", ctx |-> NilCtx, err |-> NoErr, sent |-> FALSE]

Init ==
    /\ handles = <<STX(RootDB)>>
    /\ txs = <<>>
    /\ scopes = <<>>
    /\ log = <<>>
    /\ ncb = 0
    /\ reg = <<>>
    /\ lateReq = FALSE
    /\ last = NoCall

\* txCtx, cleanup := WithDefer(ctx) with ctx among C, followed by the region's
\* write through Current(txCtx); oks = what the store may answer to BeginTx.
\* Begin on a context that is already inside a transaction is left to the
\* store (savepoints) and is not modelled.
WithDeferOn(C, oks) ==
    /\ ~Busy
    /\ Len(scopes) < MaxScopes
    /\ \E ctx \in C, ok \in oks :
        /\ Current(ctx) = NilDB \/ Current(ctx).ConnPool = RootPool
        /\ LET b == Begin(handles, txs, ctx, ok) IN
            /\ handles' = b.handles
            /\ scopes' = Append(scopes, NewScope("defer", ctx, b.ctx))
            /\ txs' = Write(b.txs,
                            IF b.ctx.kind = "stx" THEN b.handles[b.ctx.h].db ELSE NilDB,
                            Len(scopes) + 1)
    /\ UNCHANGED <<log, ncb, reg, lateReq, last>>

\* OnSuccess(ctx, callback) with ctx among C and a fresh callback, or nil if
\* nils allows it.
OnSuccessOn(C, nils) ==
    /\ ~Busy
    /\ \E ctx \in C, isNil \in nils :
        /\ isNil \/ ncb < MaxCallbacks
        /\ LET cb == IF isNil THEN 0 ELSE ncb + 1
               r  == OnSuccess(handles, log, ctx, cb) IN
            /\ handles' = r.handles
            /\ log' = r.log
            /\ ncb' = IF isNil THEN ncb ELSE ncb + 1
            /\ reg' = IF isNil THEN reg ELSE Append(reg, ctx)
    /\ UNCHANGED <<txs, scopes, lateReq, last>>

\* Commit(ctx) called by the program, ctx among C; rec = the call is observed
\* in last.
CommitOn(C, oks, rec) ==
    /\ ~Busy
    /\ \E ctx \in C, ok \in oks :
        LET c == Commit(txs, ctx, ok) IN
        /\ txs' = c.txs
        /\ lateReq' = (lateReq \/ c.late)
        /\ last' = IF rec THEN [op |-> "Commit", ctx |-> ctx, err |-> c.err, sent |-> c.sent]
                   ELSE last
    /\ UNCHANGED <<handles, scopes, log, ncb, reg>>

\* Rollback(ctx) called by the program, ctx among C.
RollbackOn(C, oks, rec) ==
    /\ ~Busy
    /\ \E ctx \in C, ok \in oks :
        LET c == Rollback(txs, ctx, ok) IN
        /\ txs' = c.txs
        /\ lateReq' = (lateReq \/ c.late)
        /\ last' = IF rec THEN [op |-> "Rollback", ctx |-> ctx, err |-> c.err, sent |-> c.sent]
                   ELSE last
    /\ UNCHANGED <<handles, scopes, log, ncb, reg>>

\* The region of the innermost scope ends and its deferred cleanup(&err) runs:
\* the region returned e (r = NoPanic) or panicked with payload r while *err
\* held e.
\* hs = whether the program may pass a nil pointer for err (e is then of no
\* account and taken as nil).
CleanupAt(hs, es, rs, oks) ==
    /\ ~Busy
    /\ Top # 0
    /\ \E hasSlot \in hs, e \in es, r \in rs, ok \in oks :
        LET sc == scopes[Top]
            c  == Cleanup(txs, sc.ctx, hasSlot, e, r, ok) IN
        /\ sc.kind = "defer"
        /\ sc.pc = "body"
        /\ hasSlot \/ e = NoErr
        /\ txs' = c.txs
        /\ lateReq' = (lateReq \/ c.late)
        /\ scopes' = [scopes EXCEPT ![Top] =
              [sc EXCEPT !.given = e, !.slot = c.slot, !.recovered = r,
                         !.hasSlot = hasSlot, !.calls = 1,
                         !.req = c.req, !.reqErr = c.reqErr, !.sent = c.sent,
                         !.snap = c.snap, !.taken = Len(c.snap),
                         !.pc = IF c.drain /\ c.snap # <<>> THEN "drain" ELSE "done"]]
        /\ handles' = IF c.drain /\ sc.ctx.kind = "stx"
                       THEN DrainLock(handles, sc.ctx.h) ELSE handles
    /\ UNCHANGED <<log, ncb, reg, last>>

\* cleanup(&err)
CleanupWith(es, rs, oks) == CleanupAt({TRUE}, es, rs, oks)

\* callback() for the next callback of the copy.
DrainStep ==
    /\ \E s \in 1..Len(scopes) :
        LET sc == scopes[s] IN
        /\ sc.pc = "drain"
        /\ log' = Append(log, Head(sc.snap))
        /\ scopes' = [scopes EXCEPT ![s] =
              [sc EXCEPT !.snap = Tail(sc.snap),
                         !.pc = IF Tail(sc.snap) # <<>> THEN "drain"
                                ELSE IF sc.kind = "wt" THEN "end" ELSE "done"]]
    /\ UNCHANGED <<handles, txs, ncb, reg, lateReq, last>>

\* ------------------------------------------------ Spec: scopes on a bound store
\* The program works on the root context New returned and on the contexts of
\* its WithDefer scopes; the store may fail any request, the region may return
\* nil or an error, or panic.
WithDeferCall == WithDeferOn({RootCtx}, BOOLEAN)
OnSuccessCall == OnSuccessOn(HandleCtx, {FALSE})
CommitCall    == CommitOn(HandleCtx, BOOLEAN, FALSE)
RollbackCall  == RollbackOn(HandleCtx, BOOLEAN, FALSE)
CleanupCall   == CleanupWith({NoErr, ErrBusiness}, Payloads \cup {NoPanic}, BOOLEAN)

Next ==
    \/ WithDeferCall
    \/ OnSuccessCall
    \/ CommitCall
    \/ RollbackCall
    \/ CleanupCall
    \/ DrainStep

Spec == Init /\ [][Next]_vars

\* ------------------------------------------------ SpecIdle: any context
\* The program also uses a nil context, a context without a handle and a
\* context with a foreign value under the key, and nil callbacks; the store
\* carries out what it is asked and no region panics.
IdleWithDefer == WithDeferOn(AllCtx, {TRUE})
IdleOnSuccess == OnSuccessOn(AllCtx, BOOLEAN)
IdleCommit    == CommitOn(AllCtx, {TRUE}, FALSE)
IdleRollback  == RollbackOn(AllCtx, {TRUE}, FALSE)
IdleCleanup   == CleanupWith({NoErr, ErrBusiness}, {NoPanic}, {TRUE})

NextIdle ==
    \/ IdleWithDefer
    \/ IdleOnSuccess
    \/ IdleCommit
    \/ IdleRollback
    \/ IdleCleanup
    \/ DrainStep

SpecIdle == Init /\ [][NextIdle]_vars

\* ------------------------------- SpecOps: Commit and Rollback calls observed
\* Commit and Rollback on every context the program holds, each call observed
\* in last; the store may fail any request.
OpsWithDefer == WithDeferOn(AllCtx, BOOLEAN)
OpsCommit    == CommitOn(AllCtx, BOOLEAN, TRUE)
OpsRollback  == RollbackOn(AllCtx, BOOLEAN, TRUE)
OpsCleanup   == CleanupWith({NoErr, ErrBusiness}, {NoPanic}, BOOLEAN)

NextOps ==
    \/ OpsWithDefer
    \/ OpsCommit
    \/ OpsRollback
    \/ OpsCleanup

SpecOps == Init /\ [][NextOps]_vars

\* ----------------------------------- SpecPar: concurrent OnSuccess calls
\* Goroutines the region of a WithDefer scope starts, each calling OnSuccess
\* once with the scope's context; the region waits for them before it returns.
MaxThreads == 3

\* A plausible slip: the writer lock does not exclude other writers.
LockNotExclusive(H, h, t) == [ok |-> TRUE, handles |-> [H EXCEPT ![h].mu = t]]

\* stx.mu.Lock() by goroutine t: goes through only when nobody holds the lock.
Lock(H, h, t) ==
    IF H[h].mu = 0 THEN [ok |-> TRUE, handles |-> [H EXCEPT ![h].mu = t]]
    ELSE [ok |-> FALSE, handles |-> H]

\* stx.mu.Unlock()
Unlock(H, h) == [H EXCEPT ![h].mu = 0]

GoScopes == {t \in 1..Len(scopes) : scopes[t].kind = "go"}

ParWithDefer == WithDeferOn({RootCtx}, BOOLEAN)

\* go OnSuccess(txCtx, callback): the call passes the nil and type tests and
\* stands before stx.mu.Lock().
ParGo ==
    /\ ~Busy
    /\ ncb < MaxThreads
    /\ \E s \in DeferScopes :
        /\ scopes[s].pc = "body"
        /\ scopes[s].ctx.kind = "stx"
        /\ scopes' = Append(scopes,
              [NewScope("go", scopes[s].ctx, scopes[s].ctx) EXCEPT !.pc = "lock", !.cb = ncb + 1])
        /\ reg' = Append(reg, scopes[s].ctx)
    /\ ncb' = ncb + 1
    /\ UNCHANGED <<handles, txs, log, lateReq, last>>

\* The number of OnSuccess calls on ctx that have gone through stx.mu.Lock().
Acquired(ctx) ==
    Cardinality({u \in GoScopes : scopes[u].ctx = ctx /\ scopes[u].pc # "lock"})

\* A plausible slip: the callback is put at the front of the slice.
AppendCallbackFront(q, cb) == <<cb>> \o q

\* append(stx.callbacks, callback) on the slice read.
AppendCallback(q, cb) == Append(q, cb)

\* stx.mu.Lock()
ParLock ==
    /\ \E t \in GoScopes :
        LET l == Lock(handles, scopes[t].ctx.h, t) IN
        /\ scopes[t].pc = "lock"
        /\ l.ok
        /\ handles' = l.handles
        /\ scopes' = [scopes EXCEPT ![t].pc = "read", ![t].ticket = Acquired(scopes[t].ctx) + 1]
    /\ UNCHANGED <<txs, log, ncb, reg, lateReq, last>>

\* append(stx.callbacks, callback): the slice is read ...
ParRead ==
    /\ \E t \in GoScopes :
        /\ scopes[t].pc = "read"
        /\ scopes' = [scopes EXCEPT ![t].pc = "write",
                                    ![t].snap = handles[scopes[t].ctx.h].callbacks]
    /\ UNCHANGED <<handles, txs, log, ncb, reg, lateReq, last>>

\* ... and stx.callbacks is assigned the slice read with the callback appended.
ParWrite ==
    /\ \E t \in GoScopes :
        /\ scopes[t].pc = "write"
        /\ handles' = [handles EXCEPT ![scopes[t].ctx.h].callbacks =
                                          AppendCallback(scopes[t].snap, scopes[t].cb)]
        /\ scopes' = [scopes EXCEPT ![t].pc = "unlock", ![t].snap = <<>>]
    /\ UNCHANGED <<txs, log, ncb, reg, lateReq, last>>

\* stx.mu.Unlock(), OnSuccess returns.
ParUnlock ==
    /\ \E t \in GoScopes :
        /\ scopes[t].pc = "unlock"
        /\ handles' = Unlock(handles, scopes[t].ctx.h)
        /\ scopes' = [scopes EXCEPT ![t].pc = "done"]
    /\ UNCHANGED <<txs, log, ncb, reg, lateReq, last>>

\* The region returns after all goroutines have ended (wg.Wait()); cleanup runs.
ParCleanup == CleanupWith({NoErr, ErrBusiness}, {NoPanic}, BOOLEAN)

NextPar ==
    \/ ParWithDefer
    \/ ParGo
    \/ ParLock
    \/ ParRead
    \/ ParWrite
    \/ ParUnlock
    \/ ParCleanup
    \/ DrainStep

SpecPar == Init /\ [][NextPar]_vars

\* ------------------------------------------- SpecWT: WithTransaction scopes
\* WithTransaction calls the program may make (nested or in sequence).
MaxNest == 2

\* RollbackTo(savepoint) of the store: the writes made in transaction t since
\* scope s was entered are undone.
RollbackTo(T, t, s) ==
    IF TxDone(T[t]) THEN T ELSE [T EXCEPT ![t].writes = {u \in @ : u < s}]

\* gorm.DB.Transaction before it calls fc: on a handle inside a transaction a
\* savepoint is set, otherwise a transaction is begun; a failure is returned
\* and fc is not called.
TransactionBegin(T, db, ok) ==
    IF IsTxConn(db.ConnPool)
    THEN [txs |-> T, tx |-> db, err |-> IF ok THEN NoErr ELSE ErrStore]
    ELSE LET b == DBBegin(T, db, ok) IN
         [txs |-> b.txs, tx |-> b.db, err |-> IF ok THEN NoErr ELSE ErrStore]

\* gorm.DB.Transaction after fc returned e for scope s: nested, an error rolls
\* back to the savepoint and nil does nothing; otherwise an error rolls the
\* transaction back, nil commits it, and a failed commit is followed by a
\* rollback. okc and okr are the store's answers to commit and rollback.
TransactionEnd(T, db, tx, s, e, okc, okr) ==
    IF IsTxConn(db.ConnPool)
    THEN IF e # NoErr
         THEN [txs |-> RollbackTo(T, db.ConnPool[2], s), err |-> e, late |-> FALSE, req |-> "rollbackto"]
         ELSE [txs |-> T, err |-> NoErr, late |-> FALSE, req |-> "none"]
    ELSE IF e # NoErr
         THEN LET rb == DBRollback(T, tx, okr) IN
              [txs |-> rb.txs, err |-> e, late |-> rb.late, req |-> "rollback"]
         ELSE LET c == DBCommit(T, tx, okc) IN
              IF c.err = NoErr
              THEN [txs |-> c.txs, err |-> NoErr, late |-> c.late, req |-> "commit"]
              ELSE LET rb == DBRollback(c.txs, tx, okr) IN
                   [txs |-> rb.txs, err |-> c.err, late |-> c.late \/ rb.late, req |-> "commit"]

\* A plausible slip: no test for a missing store, the root store is used.
WithTransactionEnterNoCheck(H, T, ctx, ok) ==
    LET db == IF Current(ctx) = NilDB THEN RootDB ELSE Current(ctx)
        b  == TransactionBegin(T, db, ok) IN
    IF b.err # NoErr
    THEN [entered |-> FALSE, handles |-> H, txs |-> b.txs, ctx |-> ctx, err |-> b.err]
    ELSE [entered |-> TRUE, handles |-> Append(H, STX(b.tx)), txs |-> b.txs,
          ctx |-> HCtx(Len(H) + 1), err |-> NoErr]

\* A plausible slip: the transaction is run on the root store, not on the
\* store the context carries.
WithTransactionEnterOnRoot(H, T, ctx, ok) ==
    LET db == Current(ctx) IN
    IF db = NilDB
    THEN [entered |-> FALSE, handles |-> H, txs |-> T, ctx |-> ctx, err |-> ErrInvalidTransaction]
    ELSE LET b == TransactionBegin(T, RootDB, ok) IN
         IF b.err # NoErr
         THEN [entered |-> FALSE, handles |-> H, txs |-> b.txs, ctx |-> ctx, err |-> b.err]
         ELSE [entered |-> TRUE, handles |-> Append(H, STX(b.tx)), txs |-> b.txs,
               ctx |-> HCtx(Len(H) + 1), err |-> NoErr]

\* A plausible slip: the handle of the new context starts with the callbacks
\* queued on the handle of the context given.
WithTransactionEnterInheritsQueue(H, T, ctx, ok) ==
    LET db == Current(ctx) IN
    IF db = NilDB
    THEN [entered |-> FALSE, handles |-> H, txs |-> T, ctx |-> ctx, err |-> ErrInvalidTransaction]
    ELSE LET b == TransactionBegin(T, db, ok) IN
         IF b.err # NoErr
         THEN [entered |-> FALSE, handles |-> H, txs |-> b.txs, ctx |-> ctx, err |-> b.err]
         ELSE [entered |-> TRUE,
               handles |-> Append(H, [STX(b.tx) EXCEPT !.callbacks = H[ctx.h].callbacks]),
               txs |-> b.txs, ctx |-> HCtx(Len(H) + 1), err |-> NoErr]

\* WithTransaction up to the call of fn(newCtx).
WithTransactionEnter(H, T, ctx, ok) ==
    LET db == Current(ctx) IN
    IF db = NilDB
    THEN [entered |-> FALSE, handles |-> H, txs |-> T, ctx |-> ctx, err |-> ErrInvalidTransaction]
    ELSE LET b == TransactionBegin(T, db, ok) IN
         IF b.err # NoErr
         THEN [entered |-> FALSE, handles |-> H, txs |-> b.txs, ctx |-> ctx, err |-> b.err]
         ELSE [entered |-> TRUE, handles |-> Append(H, STX(b.tx)), txs |-> b.txs,
               ctx |-> HCtx(Len(H) + 1), err |-> NoErr]

\* A plausible slip: the callbacks are run whatever fn returned.
WithTransactionDrainsAlways(ctx, e) == Snapshot(ctx)

\* The callbacks WithTransaction runs when fn returned e: a copy of the queue
\* of newCtx's handle if e is nil, none otherwise.
WithTransactionDrains(ctx, e) == IF e = NoErr THEN Snapshot(ctx) ELSE <<>>

\* A plausible slip: fn's error is not handed on to the store.
WithTransactionResultNil(e) == NoErr

\* What the function handed to db.Transaction returns when fn returned e.
WithTransactionResult(e) == e

\* WithTransaction(ctx, fn) is called; fn, if it is called, writes through
\* Current(newCtx).
WTCallOn(C) ==
    /\ ~Busy
    /\ Len(scopes) < MaxNest
    /\ \E ctx \in C, ok \in BOOLEAN :
        LET r  == WithTransactionEnter(handles, txs, ctx, ok)
            sc == NewScope("wt", ctx, r.ctx) IN
        /\ handles' = r.handles
        /\ scopes' = Append(scopes,
              IF r.entered THEN sc ELSE [sc EXCEPT !.pc = "done", !.slot = r.err])
        /\ txs' = IF r.entered
                  THEN Write(r.txs, r.handles[r.ctx.h].db, Len(scopes) + 1)
                  ELSE r.txs
    /\ UNCHANGED <<log, ncb, reg, lateReq, last>>

WTCall == WTCallOn(AllCtx)

\* OnSuccess(ctx, callback) inside or outside the units of work.
WTOnSuccess == OnSuccessOn(HandleCtx, {FALSE})

\* fn of the innermost scope returns e.
WTReturn ==
    /\ ~Busy
    /\ Top # 0
    /\ \E e \in {NoErr, ErrBusiness} :
        LET sc   == scopes[Top]
            snap == WithTransactionDrains(sc.ctx, e) IN
        /\ sc.kind = "wt"
        /\ sc.pc = "body"
        /\ scopes' = [scopes EXCEPT ![Top] =
              [sc EXCEPT !.given = e, !.snap = snap, !.taken = Len(snap),
                         !.pc = IF snap # <<>> THEN "drain" ELSE "end"]]
    /\ UNCHANGED <<handles, txs, log, ncb, reg, lateReq, last>>

\* The function handed to db.Transaction has returned: the store ends the
\* scope and WithTransaction returns what db.Transaction returns.
WTEnd ==
    /\ \E s \in 1..Len(scopes), okc \in BOOLEAN, okr \in BOOLEAN :
        LET sc == scopes[s]
            r  == TransactionEnd(txs, Current(sc.in), Current(sc.ctx), s,
                                 WithTransactionResult(sc.given), okc, okr) IN
        /\ sc.pc = "end"
        /\ txs' = r.txs
        /\ lateReq' = (lateReq \/ r.late)
        /\ scopes' = [scopes EXCEPT ![s] =
              [sc EXCEPT !.slot = r.err, !.req = r.req, !.pc = "done"]]
    /\ UNCHANGED <<handles, log, ncb, reg, last>>

NextWT ==
    \/ WTCall
    \/ WTOnSuccess
    \/ WTReturn
    \/ DrainStep
    \/ WTEnd

SpecWT == Init /\ [][NextWT]_vars

\* ------------------------------------ SpecLate: OnSuccess during the drain
\* The drain of a WithDefer cleanup followed call by call: a callback may
\* itself call OnSuccess with the scope's context before it returns, and
\* another goroutine may call OnSuccess with it while the drain is going on.
LateWithDefer == WithDeferOn({RootCtx}, BOOLEAN)

LateOnSuccess == OnSuccessOn(HandleCtx, {FALSE})

LateCleanup == CleanupWith({NoErr, ErrBusiness}, Payloads \cup {NoPanic}, BOOLEAN)

\* callback() is entered for the next element of the loop; wants = the
\* callback is one that calls OnSuccess(txCtx, ...).
LateInvoke ==
    /\ \E s \in DeferScopes, wants \in BOOLEAN :
        LET sc == scopes[s]
            cb == DrainOver(handles, sc)[sc.idx + 1] IN
        /\ sc.pc = "drain"
        /\ wants => ncb < MaxCallbacks
        /\ log' = Append(log, cb)
        /\ scopes' = [scopes EXCEPT ![s] =
              [sc EXCEPT !.pc = "callback", !.cb = cb, !.idx = sc.idx + 1, !.wants = wants]]
    /\ UNCHANGED <<handles, txs, ncb, reg, lateReq, last>>

\* OnSuccess(txCtx, ...) called by the running callback: it goes through
\* stx.mu.Lock(), appends and unlocks.
LateCallbackOnSuccess ==
    /\ \E s \in DeferScopes :
        LET sc == scopes[s]
            l  == Lock(handles, sc.ctx.h, s)
            r  == OnSuccess(l.handles, log, sc.ctx, ncb + 1) IN
        /\ sc.pc = "callback"
        /\ sc.wants
        /\ l.ok
        /\ handles' = Unlock(r.handles, sc.ctx.h)
        /\ log' = r.log
        /\ ncb' = ncb + 1
        /\ reg' = Append(reg, sc.ctx)
        /\ scopes' = [scopes EXCEPT ![s].wants = FALSE]
    /\ UNCHANGED <<txs, lateReq, last>>

\* OnSuccess(txCtx, ...) called by another goroutine while the drain is going on.
LateRaceOnSuccess ==
    /\ ncb < MaxCallbacks
    /\ \E s \in DeferScopes :
        LET sc == scopes[s]
            l  == Lock(handles, sc.ctx.h, s)
            r  == OnSuccess(l.handles, log, sc.ctx, ncb + 1) IN
        /\ sc.pc \in {"drain", "callback"}
        /\ ~sc.wants
        /\ l.ok
        /\ handles' = Unlock(r.handles, sc.ctx.h)
        /\ log' = r.log
        /\ ncb' = ncb + 1
        /\ reg' = Append(reg, sc.ctx)
    /\ UNCHANGED <<txs, scopes, lateReq, last>>

\* The callback returns; the loop goes on or the cleanup call returns.
LateCallbackReturn ==
    /\ \E s \in DeferScopes :
        LET sc == scopes[s] IN
        /\ sc.pc = "callback"
        /\ ~sc.wants
        /\ scopes' = [scopes EXCEPT ![s].cb = 0,
              ![s].pc = IF sc.idx < Len(DrainOver(handles, sc)) THEN "drain" ELSE "done"]
    /\ UNCHANGED <<handles, txs, log, ncb, reg, lateReq, last>>

NextLate ==
    \/ LateWithDefer
    \/ LateOnSuccess
    \/ LateCleanup
    \/ LateInvoke
    \/ LateCallbackOnSuccess
    \/ LateRaceOnSuccess
    \/ LateCallbackReturn

SpecLate == Init /\ [][NextLate]_vars

\* Every callback terminates, and a goroutine that can go on does.
SpecLateFair ==
    /\ SpecLate
    /\ WF_vars(LateInvoke)
    /\ WF_vars(LateCallbackOnSuccess)
    /\ WF_vars(LateCallbackReturn)

\* ------------------------------ SpecRe: cleanup at the edges of its use
\* The program may bind no store (New with a nil *gorm.DB), pass cleanup a nil
\* pointer, call cleanup again after it has returned, and register callbacks
\* that panic.
MaxCalls == 2

\* New(ctx, db): a handle for db under a new context value.
New(H, db) == [handles |-> Append(H, STX(db)), ctx |-> HCtx(Len(H) + 1)]

\* The contexts New has returned.
NewCtx == {RootCtx} \cup {HCtx(h) : h \in {g \in 2..Len(handles) : handles[g].db = NilDB}}

\* A plausible slip: the loop runs under the deferred recover, which rolls
\* back and reports the panic of the callback.
CallbackPanicsRecovered(T, sc, r, ok) ==
    LET rb == Rollback(T, sc.ctx, ok) IN
    [txs |-> rb.txs, late |-> rb.late,
     slot |-> IF sc.hasSlot THEN panicError(r) ELSE sc.slot, escapes |-> FALSE]

\* callback() panics with r inside the loop: recover() was called when cleanup
\* was entered and is not called again, so nothing is rolled back or assigned
\* and the panic leaves cleanup.
CallbackPanics(T, sc, r, ok) ==
    [txs |-> T, late |-> FALSE, slot |-> sc.slot, escapes |-> TRUE]

\* ctx := New(context.Background(), nil)
ReNew ==
    /\ ~Busy
    /\ Len(handles) = 1
    /\ handles' = New(handles, NilDB).handles
    /\ UNCHANGED <<txs, scopes, log, ncb, reg, lateReq, last>>

ReWithDefer == WithDeferOn(NewCtx, BOOLEAN)

ReOnSuccess == OnSuccessOn(HandleCtx, {FALSE})

\* A panic of the region, with a string.
StringPanic == [type |-> "string", text |-> "test panic"]

\* cleanup(&err) or cleanup(nil), the region having returned nil or panicked.
ReCleanup == CleanupAt(BOOLEAN, {NoErr}, {NoPanic, StringPanic}, BOOLEAN)

\* cleanup is called once more, with the pointer it was given before, after
\* it has returned.
ReCleanupAgain ==
    /\ ~Busy
    /\ \E s \in DeferScopes, ok \in BOOLEAN :
        LET sc == scopes[s]
            c  == Cleanup(txs, sc.ctx, sc.hasSlot, sc.slot, NoPanic, ok) IN
        /\ sc.pc = "done"
        /\ sc.calls < MaxCalls
        /\ txs' = c.txs
        /\ lateReq' = (lateReq \/ c.late)
        /\ scopes' = [scopes EXCEPT ![s] =
              [sc EXCEPT !.slot = c.slot, !.req = c.req, !.reqErr = c.reqErr,
                         !.sent = c.sent, !.snap = c.snap, !.taken = Len(c.snap),
                         !.calls = sc.calls + 1,
                         !.pc = IF c.drain /\ c.snap # <<>> THEN "drain" ELSE "done"]]
        /\ handles' = IF c.drain /\ sc.ctx.kind = "stx"
                       THEN DrainLock(handles, sc.ctx.h) ELSE handles
    /\ UNCHANGED <<log, ncb, reg, last>>

ReDrain == DrainStep

\* The next callback of the copy is called and panics.
RePanic ==
    /\ \E s \in DeferScopes, r \in {StringPanic}, ok \in BOOLEAN :
        LET sc == scopes[s]
            p  == CallbackPanics(txs, sc, r, ok) IN
        /\ sc.pc = "drain"
        /\ log' = Append(log, Head(sc.snap))
        /\ txs' = p.txs
        /\ lateReq' = (lateReq \/ p.late)
        /\ scopes' = [scopes EXCEPT ![s] =
              [sc EXCEPT !.cb = Head(sc.snap), !.snap = Tail(sc.snap), !.slot = p.slot,
                         !.pc = IF p.escapes THEN "panic" ELSE "done"]]
    /\ UNCHANGED <<handles, ncb, reg, last>>

NextRe ==
    \/ ReNew
    \/ ReWithDefer
    \/ ReOnSuccess
    \/ ReCleanup
    \/ ReCleanupAgain
    \/ ReDrain
    \/ RePanic

SpecRe == Init /\ [][NextRe]_vars

\* ------------------------------------- SpecThr: one scope per goroutine
\* Goroutines that share the root context each open a WithDefer scope of their
\* own, register callbacks on its context and run its cleanup.  The scopes are
\* not nested: the steps of different goroutines interleave in any order.  A
\* goroutine touches only the handle of its own scope and reads the root
\* handle, so each of its calls is one step.
MaxPar == 2

\* txCtx, cleanup := WithDefer(ctx) in a new goroutine, and its write.
ThrWithDefer ==
    /\ Len(scopes) < MaxPar
    /\ \E ok \in BOOLEAN :
        LET b == Begin(handles, txs, RootCtx, ok) IN
        /\ handles' = b.handles
        /\ scopes' = Append(scopes, NewScope("defer", RootCtx, b.ctx))
        /\ txs' = Write(b.txs,
                        IF b.ctx.kind = "stx" THEN b.handles[b.ctx.h].db ELSE NilDB,
                        Len(scopes) + 1)
    /\ UNCHANGED <<log, ncb, reg, lateReq, last>>

\* OnSuccess(txCtx, callback) by the goroutine of scope s.
ThrOnSuccess ==
    /\ ncb < MaxCallbacks
    /\ \E s \in DeferScopes :
        LET r == OnSuccess(handles, log, scopes[s].ctx, ncb + 1) IN
        /\ scopes[s].pc = "body"
        /\ handles' = r.handles
        /\ log' = r.log
        /\ ncb' = ncb + 1
        /\ reg' = Append(reg, scopes[s].ctx)
    /\ UNCHANGED <<txs, scopes, lateReq, last>>

\* cleanup(&err) by the goroutine of scope s.
ThrCleanup ==
    /\ \E s \in DeferScopes, e \in {NoErr, ErrBusiness}, ok \in BOOLEAN :
        LET sc == scopes[s]
            c  == Cleanup(txs, sc.ctx, TRUE, e, NoPanic, ok) IN
        /\ sc.pc = "body"
        /\ txs' = c.txs
        /\ lateReq' = (lateReq \/ c.late)
        /\ scopes' = [scopes EXCEPT ![s] =
              [sc EXCEPT !.given = e, !.slot = c.slot, !.recovered = NoPanic,
                         !.req = c.req, !.reqErr = c.reqErr, !.sent = c.sent,
                         !.snap = c.snap, !.taken = Len(c.snap),
                         !.pc = IF c.drain /\ c.snap # <<>> THEN "drain" ELSE "done"]]
        /\ handles' = IF c.drain /\ sc.ctx.kind = "stx"
                       THEN DrainLock(handles, sc.ctx.h) ELSE handles
    /\ UNCHANGED <<log, ncb, reg, last>>

ThrDrain == DrainStep

NextThr ==
    \/ ThrWithDefer
    \/ ThrOnSuccess
    \/ ThrCleanup
    \/ ThrDrain

SpecThr == Init /\ [][NextThr]_vars

\* ------------------------------------------- SpecMix: every kind of scope
\* The program mixes the two kinds of scope: WithDefer regions and units of
\* work of WithTransaction, opened with any context it holds, with Commit and
\* Rollback calls in between; it registers no callback.
MixWithDefer == WithDeferOn(AllCtx, BOOLEAN)

\* db.Transaction on a handle whose BeginTx failed is left to the store.
MixCall == WTCallOn({ctx \in AllCtx : Current(ctx) = NilDB \/ Current(ctx).ConnPool # NilTx})

MixCommit == CommitOn(AllCtx, {TRUE}, FALSE)

MixRollback == RollbackOn(AllCtx, {TRUE}, FALSE)

MixReturn == WTReturn

MixCleanup == CleanupWith({NoErr, ErrBusiness}, {NoPanic}, BOOLEAN)

MixEnd == WTEnd

NextMix ==
    \/ MixWithDefer
    \/ MixCall
    \/ MixCommit
    \/ MixRollback
    \/ MixReturn
    \/ MixCleanup
    \/ MixEnd

SpecMix == Init /\ [][NextMix]_vars

\* ---------------------------------------------------------------- claims
\* Number of times x occurs in seq.
Count(seq, x) == Cardinality({i \in 1..Len(seq) : seq[i] = x})

\* WithDefer was given a context bound to a store, and so returned a context
\* with a handle of its own.
StoreBound(s) == Current(scopes[s].in) # NilDB /\ scopes[s].ctx # scopes[s].in

\* The callback queue of the scope's handle.
Queue(s) == handles[scopes[s].ctx.h].callbacks

\* The store transaction the scope's handle is bound to, 0 if none.
TxOf(s) ==
    LET db == Current(scopes[s].ctx) IN
    IF db # NilDB /\ IsTxConn(db.ConnPool) THEN db.ConnPool[2] ELSE 0

\* The cleanup call of scope s committed the scope's transaction.
CleanupCommitted(s) ==
    /\ scopes[s].pc # "body"
    /\ scopes[s].req = "commit"
    /\ scopes[s].reqErr = NoErr
    /\ TxOf(s) # 0
    /\ txs[TxOf(s)].state = "committed"

\* The callbacks handed to OnSuccess with context ctx, in the order of the calls.
RegOn(ctx) ==
    LET On(cb) == reg[cb] = ctx IN SelectSeq([i \in 1..ncb |-> i], On)

\* The callbacks handed to OnSuccess with context ctx, in the order they ran.
RanOn(ctx) ==
    LET On(cb) == reg[cb] = ctx IN SelectSeq(log, On)

\* C1: a callback registered on the context WithDefer returned for a bound
\* store has run only if cleanup committed the transaction, and once cleanup
\* has committed and finished it has run (once); after a rollback (error or
\* recovered panic) or a failed commit it has not run.
C1_CallbackGating ==
    \A s \in DeferScopes : StoreBound(s) =>
        \A i \in 1..Len(Queue(s)) :
            /\ Count(log, Queue(s)[i]) > 0 => CleanupCommitted(s)
            /\ (scopes[s].pc = "done" /\ CleanupCommitted(s)) => Count(log, Queue(s)[i]) = 1

C1_Witness ==
    \E s \in DeferScopes :
        /\ StoreBound(s) /\ scopes[s].pc = "done" /\ CleanupCommitted(s)
        /\ Len(Queue(s)) > 0
        /\ \A i \in 1..Len(Queue(s)) : Count(log, Queue(s)[i]) = 1

WTScopes == {s \in 1..Len(scopes) : scopes[s].kind = "wt"}

\* C2 (as claimed): a callback registered on the context of a WithTransaction
\* scope has not run if the scope's transaction is rolled back, and has run
\* (once) when the scope has ended and the transaction is committed.
C2_TransactionGating ==
    \A s \in WTScopes : (scopes[s].ctx # scopes[s].in) =>
        \A i \in 1..Len(Queue(s)) :
            /\ Count(log, Queue(s)[i]) > 0 => txs[TxOf(s)].state # "rolledback"
            /\ (/\ scopes[s].pc = "done" /\ scopes[s].slot = NoErr
                /\ txs[TxOf(s)].state = "committed")
                  => Count(log, Queue(s)[i]) = 1

\* C3: after a successful commit the callbacks registered on the scope have
\* run in the order of their registration, each once: while cleanup drains,
\* those run followed by those still to run are the registered ones in order.
C3_RegistrationOrder ==
    \A s \in DeferScopes : (StoreBound(s) /\ CleanupCommitted(s)) =>
        RanOn(scopes[s].ctx) \o scopes[s].snap = RegOn(scopes[s].ctx)

C3_Witness ==
    \E s \in DeferScopes :
        /\ StoreBound(s) /\ CleanupCommitted(s) /\ scopes[s].pc = "done"
        /\ Len(RegOn(scopes[s].ctx)) >= 2
        /\ RanOn(scopes[s].ctx) = RegOn(scopes[s].ctx)

\* C4 (as claimed): once the protected region of a scope with a transaction
\* has exited and cleanup has run, the transaction is committed or rolled back
\* (unless the store refused the rollback it was asked for).
C4_ExactlyOneOutcome ==
    \A s \in DeferScopes :
        (/\ scopes[s].pc = "done" /\ TxOf(s) # 0
         /\ ~(scopes[s].req = "rollback" /\ scopes[s].reqErr # NoErr))
        => TxDone(txs[TxOf(s)])

\* C5 (as claimed): the store is never sent a commit or rollback for a
\* transaction that is already committed or rolled back.
C5_NoLateRequest == ~lateReq

\* C6 (as claimed): after cleanup either *err is nil, the transaction is
\* committed and the callbacks ran, or *err is not nil, the transaction is
\* rolled back and no callback ran (unless the store refused the rollback).
C6_NilOrRolledBack ==
    \A s \in DeferScopes :
        (/\ scopes[s].pc = "done" /\ StoreBound(s) /\ TxOf(s) # 0
         /\ ~(scopes[s].req = "rollback" /\ scopes[s].reqErr # NoErr))
        => \/ /\ scopes[s].slot = NoErr
              /\ txs[TxOf(s)].state = "committed"
              /\ \A i \in 1..Len(Queue(s)) : Count(log, Queue(s)[i]) = 1
           \/ /\ scopes[s].slot # NoErr
              /\ txs[TxOf(s)].state = "rolledback"
              /\ \A i \in 1..Len(Queue(s)) : Count(log, Queue(s)[i]) = 0

\* C7 (as claimed): after a panic in the region cleanup has asked for a
\* rollback, *err is a "recovered from panic" error carrying the payload, no
\* callback ran and the scope's write is not visible.
C7_PanicRecovered ==
    \A s \in DeferScopes :
        (scopes[s].pc # "body" /\ scopes[s].recovered # NoPanic /\ StoreBound(s)) =>
            /\ scopes[s].pc = "done"
            /\ scopes[s].req = "rollback"
            /\ scopes[s].slot = <<"recovered from panic", scopes[s].recovered.text>>
            /\ \A i \in 1..Len(Queue(s)) : Count(log, Queue(s)[i]) = 0
            /\ ~lateReq => ~Visible(s)

\* C8: when the region returned a non-nil error, cleanup asked for a rollback
\* (which the store carried out unless it answered with an error), never for
\* a commit, ran no callback and left *err as it was, also when the rollback
\* failed.
C8_ErrorKept ==
    \A s \in DeferScopes :
        (scopes[s].pc # "body" /\ scopes[s].recovered = NoPanic /\ scopes[s].given # NoErr) =>
            /\ scopes[s].pc = "done"
            /\ scopes[s].req = "rollback"
            /\ scopes[s].slot = scopes[s].given
            /\ (TxOf(s) # 0 /\ scopes[s].reqErr = NoErr) => txs[TxOf(s)].state = "rolledback"
            /\ StoreBound(s) => \A i \in 1..Len(Queue(s)) : Count(log, Queue(s)[i]) = 0

C8_Witness ==
    \E s \in DeferScopes :
        /\ scopes[s].pc = "done" /\ scopes[s].recovered = NoPanic
        /\ scopes[s].given = ErrBusiness /\ scopes[s].slot = ErrBusiness
        /\ scopes[s].reqErr = ErrStore
        /\ TxOf(s) # 0 /\ txs[TxOf(s)].state = "open"

\* C9: when the region returned nil and the store's commit failed, *err is a
\* "failed to commit transaction" error whose Unwrap is the store's error, and
\* cleanup stopped: no callback ran.
C9_CommitFailureWrapped ==
    \A s \in DeferScopes :
        (/\ scopes[s].pc # "body" /\ scopes[s].recovered = NoPanic
         /\ scopes[s].given = NoErr /\ scopes[s].reqErr # NoErr) =>
            /\ scopes[s].pc = "done"
            /\ scopes[s].req = "commit"
            /\ scopes[s].slot[1] = "failed to commit transaction"
            /\ Unwrap(scopes[s].slot) = scopes[s].reqErr
            /\ StoreBound(s) => \A i \in 1..Len(Queue(s)) : Count(log, Queue(s)[i]) = 0

C9_Witness ==
    \E s \in DeferScopes :
        /\ scopes[s].pc = "done" /\ scopes[s].recovered = NoPanic
        /\ scopes[s].given = NoErr /\ scopes[s].reqErr = ErrStore
        /\ StoreBound(s) /\ Len(Queue(s)) > 0
        /\ Unwrap(scopes[s].slot) = ErrStore

\* C10: a non-nil callback handed to OnSuccess with a context that carries no
\* handle, or a value that is no handle, has run exactly once when OnSuccess
\* returns, and is in no queue.
C10_ImmediateWithoutHandle ==
    \A cb \in 1..ncb : reg[cb].kind \in {"background", "badvalue"} =>
        /\ Count(log, cb) = 1
        /\ \A h \in 1..Len(handles) : Count(handles[h].callbacks, cb) = 0

C10_Witness ==
    \E c1, c2 \in 1..ncb :
        /\ reg[c1] = BgCtx /\ reg[c2] = BadCtx
        /\ Count(log, c1) = 1 /\ Count(log, c2) = 1

\* C11 (as claimed): a callback handed to OnSuccess with the context New
\* returned (a handle on the root store, no transaction begun) has run once
\* when OnSuccess returns and is in no queue.
C11_ImmediateOnRootHandle ==
    \A cb \in 1..ncb : reg[cb] = RootCtx =>
        /\ Count(log, cb) = 1
        /\ \A h \in 1..Len(handles) : Count(handles[h].callbacks, cb) = 0

\* C12: OnSuccess with a nil context or a nil callback does nothing: a
\* callback handed over with a nil context never runs and is in no queue, the
\* nil callback is in no queue and is never invoked, and the cleanup of a
\* scope that was sent nothing but nil callbacks invokes nothing.
C12_NilIsNoOp ==
    /\ \A cb \in 1..ncb : reg[cb] = NilCtx =>
          /\ Count(log, cb) = 0
          /\ \A h \in 1..Len(handles) : Count(handles[h].callbacks, cb) = 0
    /\ Count(log, 0) = 0
    /\ \A h \in 1..Len(handles) : Count(handles[h].callbacks, 0) = 0
    /\ \A s \in 1..Len(scopes) : Count(scopes[s].snap, 0) = 0

C12_Witness ==
    \E cb \in 1..ncb, s \in DeferScopes :
        /\ reg[cb] = NilCtx /\ Count(log, cb) = 0
        /\ StoreBound(s) /\ scopes[s].pc = "done" /\ CleanupCommitted(s)
        /\ scopes[s].slot = NoErr

\* C13: Commit and Rollback on a context without an active transaction (nil,
\* no handle, a value that is no handle, or the root handle of New) return nil
\* and do not call the store: so did the last call observed, and so will the
\* next call, whatever was called before.
NoTxCtx == {NilCtx, BgCtx, BadCtx, RootCtx}

C13_NoTransactionNoOp ==
    /\ last.ctx \in NoTxCtx => (last.err = NoErr /\ ~last.sent)
    /\ \A ctx \in NoTxCtx, ok \in BOOLEAN :
          /\ Commit(txs, ctx, ok) = Returned(txs)
          /\ Rollback(txs, ctx, ok) = Returned(txs)

C13_Witness ==
    /\ last.op = "Rollback" /\ last.ctx = RootCtx /\ last.err = NoErr /\ ~last.sent
    /\ \E t \in 1..Len(txs) : txs[t].state = "open"

\* C14: WithTransaction on a context from which no store resolves returns
\* ErrInvalidTransaction at once: fn is not called (no context is made for
\* it), no transaction is begun, nothing is written, no callback is run.
C14_NoStoreBound ==
    /\ \A s \in WTScopes : Current(scopes[s].in) = NilDB =>
          /\ scopes[s].pc = "done"
          /\ scopes[s].slot = ErrInvalidTransaction
          /\ scopes[s].ctx = scopes[s].in
          /\ scopes[s].req = "none" /\ scopes[s].snap = <<>>
          /\ \A t \in 1..Len(txs) : s \notin txs[t].writes
    /\ Len(txs) <= Cardinality({s \in WTScopes : Current(scopes[s].in) # NilDB})
    /\ Len(handles) <= 1 + Cardinality({s \in WTScopes : Current(scopes[s].in) # NilDB})

C14_Witness ==
    \E s, u \in WTScopes :
        /\ scopes[s].in = NilCtx /\ scopes[s].slot = ErrInvalidTransaction
        /\ scopes[u].in = BgCtx /\ scopes[u].slot = ErrInvalidTransaction
        /\ txs = <<>> /\ log = <<>>

\* C15: a WithTransaction call on the root context whose fn returned nil asks
\* the store to commit, and when it returns nil the transaction is committed
\* and fn's write is visible; when fn returned an error it asks for a rollback,
\* returns exactly that error, and the write is not visible.
C15_CommitOrRollback ==
    \A s \in WTScopes :
        (scopes[s].in = RootCtx /\ scopes[s].ctx # scopes[s].in /\ scopes[s].pc = "done") =>
            /\ scopes[s].given = NoErr =>
                  /\ scopes[s].req = "commit"
                  /\ scopes[s].slot = NoErr =>
                        (txs[TxOf(s)].state = "committed" /\ Visible(s))
                  /\ scopes[s].slot # NoErr => ~Visible(s)
            /\ scopes[s].given # NoErr =>
                  /\ scopes[s].req = "rollback"
                  /\ scopes[s].slot = scopes[s].given
                  /\ txs[TxOf(s)].state # "committed"
                  /\ ~Visible(s)

C15_Witness ==
    \E s, u \in WTScopes :
        /\ scopes[s].in = RootCtx /\ scopes[s].pc = "done" /\ scopes[s].ctx # scopes[s].in
        /\ scopes[s].given = NoErr /\ scopes[s].slot = NoErr /\ Visible(s)
        /\ scopes[u].in = RootCtx /\ scopes[u].pc = "done" /\ scopes[u].ctx # scopes[u].in
        /\ scopes[u].given = ErrBusiness /\ scopes[u].slot = ErrBusiness /\ ~Visible(u)
        /\ txs[TxOf(u)].state = "rolledback"

\* Scope i is a WithTransaction call made by the fn of WithTransaction call o
\* with the context o handed to its fn; both have returned.
NestedDone(o, i) ==
    /\ o \in WTScopes /\ i \in WTScopes
    /\ scopes[o].ctx # scopes[o].in /\ scopes[i].ctx # scopes[i].in
    /\ scopes[i].in = scopes[o].ctx
    /\ scopes[o].pc = "done" /\ scopes[i].pc = "done"

\* C16: nested WithTransaction scopes are bound to one transaction; when the
\* inner fn returned nil and the outer fn an error, the writes of both are not
\* visible; when both returned nil, as did every other fn run inside the
\* transaction, and the outermost call returned nil, the writes of both are
\* visible.
C16_NestedDurability ==
    \A o, i \in 1..Len(scopes) : NestedDone(o, i) =>
        /\ TxOf(i) = TxOf(o)
        /\ (scopes[i].given = NoErr /\ scopes[o].given # NoErr) =>
              (~Visible(i) /\ ~Visible(o))
        /\ (/\ scopes[i].given = NoErr /\ scopes[o].given = NoErr
            /\ scopes[o].in = RootCtx /\ scopes[o].slot = NoErr
            /\ \A u \in WTScopes : TxOf(u) = TxOf(o) => scopes[u].given = NoErr) =>
              (Visible(i) /\ Visible(o))

C16_Witness ==
    \E o, i \in 1..Len(scopes) :
        /\ NestedDone(o, i)
        /\ scopes[i].given = NoErr /\ scopes[i].slot = NoErr
        /\ scopes[o].given = ErrBusiness
        /\ txs[TxOf(o)].state = "rolledback"
        /\ ~Visible(i)

\* C19: when nested WithTransaction scopes whose fns both returned nil have
\* returned, each callback registered on the outer context and each
\* registered on the inner context has run exactly once.
C19_NestedCallbacksOnce ==
    \A o, i \in 1..Len(scopes) :
        (NestedDone(o, i) /\ scopes[i].given = NoErr /\ scopes[o].given = NoErr) =>
            \A cb \in 1..ncb :
                reg[cb] \in {scopes[o].ctx, scopes[i].ctx} => Count(log, cb) = 1

C19_Witness ==
    \E o, i \in 1..Len(scopes) :
        /\ NestedDone(o, i) /\ scopes[i].given = NoErr /\ scopes[o].given = NoErr
        /\ \E c1, c2 \in 1..ncb :
              /\ reg[c1] = scopes[o].ctx /\ reg[c2] = scopes[i].ctx
              /\ Count(log, c1) = 1 /\ Count(log, c2) = 1

\* C17: callbacks registered by concurrent OnSuccess calls on the context of
\* one scope: once the calls have returned each is in the scope's queue exactly
\* once, and once cleanup has committed and finished each has run exactly once.
C17_ConcurrentRegistration ==
    /\ \A t \in GoScopes : scopes[t].pc = "done" =>
          Count(handles[scopes[t].ctx.h].callbacks, scopes[t].cb) = 1
    /\ \A s \in DeferScopes :
          (StoreBound(s) /\ scopes[s].pc = "done" /\ CleanupCommitted(s)) =>
              \A cb \in 1..ncb : reg[cb] = scopes[s].ctx => Count(log, cb) = 1

C17_Witness ==
    \E s \in DeferScopes :
        /\ StoreBound(s) /\ scopes[s].pc = "done" /\ CleanupCommitted(s)
        /\ Cardinality({t \in GoScopes : scopes[t].ctx = scopes[s].ctx}) = MaxThreads
        /\ \A t \in GoScopes : Count(log, scopes[t].cb) = 1

\* C18: in a WithDefer scope, whenever cleanup is invoking callbacks or a
\* callback of the scope has run, the store has committed the scope's
\* transaction and the scope's write is visible through the root store.
C18_CallbacksAfterCommit ==
    \A s \in DeferScopes :
        (/\ StoreBound(s)
         /\ \/ scopes[s].pc = "drain"
            \/ \E i \in 1..Len(Queue(s)) : Count(log, Queue(s)[i]) > 0) =>
            /\ TxOf(s) # 0
            /\ txs[TxOf(s)].state = "committed"
            /\ Visible(s)

C18_Witness ==
    \E s \in DeferScopes :
        /\ StoreBound(s) /\ scopes[s].pc = "drain" /\ Visible(s)
        /\ Len(scopes[s].snap) = 1 /\ Len(Queue(s)) = 2
        /\ Count(log, Queue(s)[1]) = 1 /\ Count(log, Queue(s)[2]) = 0

NoStoreCtx == {NilCtx, BgCtx, BadCtx}

\* Scopes whose opening call attached a new handle.
Attached == {s \in 1..Len(scopes) : scopes[s].ctx # scopes[s].in}

\* C21: Begin on a context from which no store resolves returns that context
\* and leaves handles and transactions as they were; Begin on the root context
\* returns another context, IsTx is true of it and stays false of the
\* context given.
C21_BeginFrame ==
    /\ \A ctx \in NoStoreCtx, ok \in BOOLEAN :
          Begin(handles, txs, ctx, ok) = [handles |-> handles, txs |-> txs, ctx |-> ctx]
    /\ \A s \in DeferScopes :
          /\ scopes[s].in \in NoStoreCtx => scopes[s].ctx = scopes[s].in
          /\ scopes[s].in = RootCtx =>
                /\ scopes[s].ctx # scopes[s].in
                /\ scopes[s].ctx.kind = "stx"
                /\ IsTx(scopes[s].ctx)
                /\ ~IsTx(scopes[s].in)

C21_Witness ==
    \E s \in DeferScopes :
        /\ scopes[s].in = RootCtx
        /\ IsTx(scopes[s].ctx) /\ ~IsTx(scopes[s].in)
        /\ TxOf(s) # 0 /\ txs[TxOf(s)].state = "open"

\* C22: IsTx is false of the nil context, of a context without a handle and
\* of the root context of New; it is true of every context a scope attached
\* (Begin in WithDefer, newCtx in WithTransaction), whatever has happened to
\* the transaction since, because only the connections are compared.
C22_IsTxByConnection ==
    /\ \A ctx \in NoTxCtx : ~IsTx(ctx)
    /\ \A s \in Attached :
          /\ IsTx(scopes[s].ctx)
          /\ Current(scopes[s].ctx).ConnPool # RootPool

C22_Witness ==
    \E d \in DeferScopes, w \in WTScopes :
        /\ scopes[d].in = RootCtx /\ scopes[d].pc = "done" /\ IsTx(scopes[d].ctx)
        /\ TxOf(d) # 0 /\ txs[TxOf(d)].state = "committed"
        /\ scopes[w].in = RootCtx /\ scopes[w].pc = "body" /\ IsTx(scopes[w].ctx)
        /\ ~IsTx(RootCtx)

\* C23: Current is nil for the nil context, a context without a handle and a
\* context with another value under the key; for the root context it is the
\* store given to New; for the context a scope attached it is the store of
\* that scope's handle, a transactional one and not the root, and the write
\* made through it belongs to the scope's transaction.
C23_CurrentResolves ==
    /\ \A ctx \in NoStoreCtx : Current(ctx) = NilDB
    /\ Current(RootCtx) = RootDB
    /\ \A s \in Attached :
          /\ Current(scopes[s].ctx) # NilDB
          /\ Current(scopes[s].ctx) # RootDB
          /\ Current(scopes[s].ctx).ConnPool \in {NilTx} \cup {TxConn(t) : t \in 1..Len(txs)}
          /\ IsTx(scopes[s].in) => Current(scopes[s].ctx).ConnPool = Current(scopes[s].in).ConnPool
          /\ \A t \in 1..Len(txs) : s \in txs[t].writes => t = TxOf(s)

C23_Witness ==
    \E o \in Attached, i \in Attached :
        /\ scopes[o].in = RootCtx /\ scopes[i].in = scopes[o].ctx
        /\ TxOf(o) # 0 /\ TxOf(i) = TxOf(o)
        /\ o \in txs[TxOf(o)].writes /\ i \in txs[TxOf(o)].writes
        /\ Current(RootCtx) = RootDB

\* An OnSuccess call with any context the program holds leaves the handles
\* and their stores in place.
OnSuccessKeepsStores ==
    \A ctx \in AllCtx, cb \in 0..1 :
        LET r == OnSuccess(handles, log, ctx, cb) IN
        /\ Len(r.handles) = Len(handles)
        /\ \A h \in 1..Len(handles) : r.handles[h].db = handles[h].db

\* C26: no step (Begin in WithDefer, WithTransaction, Commit, Rollback,
\* cleanup) and no OnSuccess call changes the store of a handle that exists:
\* handles are only added, so Current of a context obtained earlier is the
\* same before and after every operation.
C26_StoreFieldFrozen ==
    /\ []OnSuccessKeepsStores
    /\ [][/\ Len(handles') >= Len(handles)
          /\ \A h \in 1..Len(handles) : handles'[h].db = handles[h].db]_vars

C26_Witness ==
    /\ Len(handles) >= 3
    /\ handles[1].db = RootDB
    /\ \E t \in 1..Len(txs) : txs[t].state = "committed"
    /\ \E t \in 1..Len(txs) : txs[t].state = "rolledback"

\* C24: goroutines that share the root context and each open a scope have
\* each a handle and a transaction of their own: IsTx is true and Current is
\* not nil of every scope's context; a transaction holds the write of its own
\* scope only, is committed or rolled back by its own cleanup only, and a
\* callback runs only after the cleanup of the scope it was registered on has
\* committed; the root context is not transactional and its queue is empty.
C24_ThreadIsolation ==
    /\ ~IsTx(RootCtx)
    /\ handles[1].callbacks = <<>>
    /\ \A s \in DeferScopes :
          /\ IsTx(scopes[s].ctx)
          /\ Current(scopes[s].ctx) # NilDB
          /\ \A u \in DeferScopes \ {s} :
                /\ scopes[u].ctx # scopes[s].ctx
                /\ TxOf(s) # 0 => TxOf(u) # TxOf(s)
          /\ RanOn(scopes[s].ctx) # <<>> => CleanupCommitted(s)
          /\ TxOf(s) # 0 =>
                /\ txs[TxOf(s)].writes \subseteq {s}
                /\ scopes[s].pc = "body" => txs[TxOf(s)].state = "open"
                /\ txs[TxOf(s)].state = "committed" => CleanupCommitted(s)
                /\ txs[TxOf(s)].state = "rolledback" =>
                      (scopes[s].req = "rollback" /\ scopes[s].pc = "done")

C24_Witness ==
    \E s \in DeferScopes, u \in DeferScopes :
        /\ s # u
        /\ TxOf(s) # 0 /\ TxOf(u) # 0
        /\ scopes[s].pc = "done" /\ CleanupCommitted(s)
        /\ RanOn(scopes[s].ctx) # <<>>
        /\ scopes[u].pc = "body" /\ txs[TxOf(u)].state = "open"
        /\ RegOn(scopes[u].ctx) # <<>> /\ RanOn(scopes[u].ctx) = <<>>
        /\ ~IsTx(RootCtx)

AttachesEmptyQueue ==
    \A ctx \in AllCtx, ok \in BOOLEAN :
        LET b == Begin(handles, txs, ctx, ok)
            w == WithTransactionEnter(handles, txs, ctx, ok) IN
        /\ \A h \in 1..Len(handles) : b.handles[h] = handles[h] /\ w.handles[h] = handles[h]
        /\ b.ctx # ctx => b.handles[b.ctx.h].callbacks = <<>>
        /\ w.ctx # ctx => w.handles[w.ctx.h].callbacks = <<>>

\* C27: a handle starts with an empty queue and callbacks do not cross
\* handles: the queue of a handle, and the copy a scope drains, hold only
\* callbacks registered with that handle's context, and a callback registered
\* on a context with a handle has run only in the drain of the scope that
\* attached that handle.
C27_QueuesDoNotCross ==
    /\ AttachesEmptyQueue
    /\ \A h \in 1..Len(handles) : \A i \in 1..Len(handles[h].callbacks) :
          reg[handles[h].callbacks[i]] = HCtx(h)
    /\ \A s \in WTScopes : \A i \in 1..Len(scopes[s].snap) :
          reg[scopes[s].snap[i]] = scopes[s].ctx
    /\ \A cb \in 1..ncb : (Count(log, cb) > 0 /\ reg[cb].kind = "stx") =>
          \E s \in WTScopes :
              /\ scopes[s].ctx = reg[cb] /\ scopes[s].ctx # scopes[s].in
              /\ scopes[s].pc \in {"drain", "end", "done"}
              /\ scopes[s].given = NoErr

C27_Witness ==
    \E o \in WTScopes, i \in WTScopes :
        /\ scopes[o].ctx # scopes[o].in /\ scopes[i].ctx # scopes[i].in
        /\ scopes[i].in = scopes[o].ctx
        /\ scopes[i].pc = "end" /\ scopes[o].pc = "body"
        /\ Len(Queue(o)) = 1 /\ Len(Queue(i)) = 1
        /\ Count(log, Queue(i)[1]) = 1
        /\ Count(log, Queue(o)[1]) = 0

\* The concurrent OnSuccess calls made with the context of scope d.
CallsOn(d) == {t \in GoScopes : scopes[t].ctx = scopes[d].ctx}

\* C29: when goroutines call OnSuccess concurrently with one transaction
\* context, a callback stands in the queue at the place its call had among
\* the acquisitions of stx.mu, and after the commit the callbacks have run in
\* that order, all of them and each once, whatever the interleaving.
C29_LockOrderIsRunOrder ==
    \A d \in DeferScopes : scopes[d].ctx.kind = "stx" =>
        /\ \A t \in CallsOn(d) : scopes[t].pc \in {"unlock", "done"} =>
              /\ scopes[t].ticket <= Len(Queue(d))
              /\ Queue(d)[scopes[t].ticket] = scopes[t].cb
        /\ (scopes[d].pc = "done" /\ CleanupCommitted(d)) =>
              /\ Len(RanOn(scopes[d].ctx)) = Cardinality(CallsOn(d))
              /\ \A t \in CallsOn(d) : RanOn(scopes[d].ctx)[scopes[t].ticket] = scopes[t].cb

C29_Witness ==
    \E d \in DeferScopes :
        /\ scopes[d].pc = "done" /\ CleanupCommitted(d)
        /\ Len(RanOn(scopes[d].ctx)) = 3
        /\ \E t \in CallsOn(d), u \in CallsOn(d) :
              /\ scopes[t].cb < scopes[u].cb
              /\ scopes[t].ticket > scopes[u].ticket

\* Scopes whose cleanup committed and took the copy of a handle's queue.
Drained == {s \in DeferScopes : scopes[s].ctx.kind = "stx" /\ CleanupCommitted(s)}

\* C28: the callbacks a commit executes are those the queue held when the copy
\* was made: the copy is the front of the queue, the callbacks that have run
\* are the front of the copy (all of it once the drain is over), and a
\* callback appended after the copy was made (by a running callback or by
\* another goroutine) has not run.
C28_SnapshotDrain ==
    \A s \in Drained :
        /\ scopes[s].taken = Len(scopes[s].snap)
        /\ scopes[s].taken <= Len(Queue(s))
        /\ scopes[s].idx <= scopes[s].taken
        /\ scopes[s].snap = SubSeq(Queue(s), 1, scopes[s].taken)
        /\ RanOn(scopes[s].ctx) = SubSeq(scopes[s].snap, 1, scopes[s].idx)
        /\ scopes[s].pc = "done" => scopes[s].idx = scopes[s].taken
        /\ \A i \in (scopes[s].taken + 1)..Len(Queue(s)) : Count(log, Queue(s)[i]) = 0

C28_Witness ==
    \E s \in Drained :
        /\ scopes[s].pc = "done"
        /\ scopes[s].taken = 1 /\ Len(Queue(s)) = 2
        /\ Count(log, Queue(s)[1]) = 1
        /\ Count(log, Queue(s)[2]) = 0

\* A drain is going on.
Draining == \E s \in DeferScopes : scopes[s].pc \in {"drain", "callback"}

\* stx.mu of the draining scope's handle is held by nobody.
NoLockWhileInvoking ==
    \A s \in DeferScopes : scopes[s].pc \in {"drain", "callback"} =>
        handles[scopes[s].ctx.h].mu = 0

\* C30: no callback is invoked while stx.mu is held, so a callback that calls
\* OnSuccess with the scope's context gets the lock; and, callbacks
\* terminating, every drain ends, having invoked as many callbacks as the
\* copy held.
C30_DrainTerminates ==
    /\ []NoLockWhileInvoking
    /\ [](\A s \in Drained : scopes[s].pc = "done" => scopes[s].idx = Len(scopes[s].snap))
    /\ Draining ~> ~Draining

C30_Witness ==
    \E s \in Drained :
        /\ scopes[s].pc = "callback"
        /\ ~scopes[s].wants
        /\ scopes[s].idx = 1
        /\ Len(Queue(s)) > scopes[s].taken
        /\ reg[Queue(s)[Len(Queue(s))]] = scopes[s].ctx

\* C33: when the region panicked while *err already held an error, cleanup
\* took the recover branch and no other: it asked for one rollback and no
\* commit, put the recovered-panic error in *err in place of the error that
\* was there, and ran no callback; unless the region had itself ended the
\* transaction, it is rolled back, or still pending if the store refused the
\* rollback, and not committed.
C33_PanicBeforeError ==
    /\ \A s \in DeferScopes, e \in {ErrBusiness}, r \in Payloads, ok \in BOOLEAN :
          scopes[s].pc = "body" =>
              Cleanup(txs, scopes[s].ctx, TRUE, e, r, ok)
                  = CleanupResult(Rollback(txs, scopes[s].ctx, ok), panicError(r),
                                  "rollback", FALSE, <<>>)
    /\ \A s \in DeferScopes :
          (scopes[s].pc # "body" /\ scopes[s].recovered # NoPanic /\ scopes[s].given # NoErr) =>
              /\ scopes[s].pc = "done"
              /\ scopes[s].req = "rollback"
              /\ scopes[s].slot = panicError(scopes[s].recovered)
              /\ scopes[s].slot # scopes[s].given
              /\ \A i \in 1..Len(Queue(s)) : Count(log, Queue(s)[i]) = 0
              /\ (TxOf(s) # 0 /\ ~lateReq) =>
                    txs[TxOf(s)].state = (IF scopes[s].reqErr = NoErr THEN "rolledback" ELSE "open")

C33_Witness ==
    \E s \in DeferScopes :
        /\ scopes[s].pc = "done"
        /\ scopes[s].recovered \in Payloads /\ scopes[s].given = ErrBusiness
        /\ scopes[s].slot = panicError(scopes[s].recovered)
        /\ Len(Queue(s)) > 0
        /\ TxOf(s) # 0 /\ txs[TxOf(s)].state = "rolledback"

\* C36 (as claimed): the error cleanup puts in *err after a recovered panic
\* carries the payload of the panic, whatever its type: the message is
\* "recovered from panic" and the error it wraps is the payload (an error) or
\* says the payload (a string or a value of another type).
C36_PayloadCarried ==
    \A s \in DeferScopes :
        (scopes[s].pc # "body" /\ scopes[s].recovered # NoPanic) =>
            /\ Len(scopes[s].slot) > 0
            /\ scopes[s].slot[1] = "recovered from panic"
            /\ Unwrap(scopes[s].slot) = <<scopes[s].recovered.text>>

\* C34: a cleanup called with a nil pointer reports nothing (the caller's
\* error stays as it was, nil); without a panic it asked for a commit, and
\* once it has finished after a commit that succeeded the callbacks have
\* run, while a commit that failed is followed by no callback; with a panic
\* it asked for a rollback, ran no callback and returned.  The callbacks are
\* those of a scope that attached its own handle.
C34_NilSlot ==
    \A s \in DeferScopes : (scopes[s].calls = 1 /\ ~scopes[s].hasSlot) =>
        /\ scopes[s].slot = NoErr
        /\ scopes[s].recovered = NoPanic =>
              /\ scopes[s].req = "commit"
              /\ (scopes[s].ctx # scopes[s].in /\ scopes[s].reqErr # NoErr) =>
                    (scopes[s].pc = "done" /\ RanOn(scopes[s].ctx) = <<>>)
              /\ (scopes[s].ctx # scopes[s].in /\ scopes[s].reqErr = NoErr /\ scopes[s].pc = "done") =>
                    RanOn(scopes[s].ctx) = Queue(s)
        /\ scopes[s].recovered # NoPanic =>
              /\ scopes[s].req = "rollback"
              /\ scopes[s].pc = "done"
              /\ scopes[s].ctx # scopes[s].in => RanOn(scopes[s].ctx) = <<>>

C34_Witness ==
    \E s \in DeferScopes :
        /\ scopes[s].calls = 1 /\ ~scopes[s].hasSlot
        /\ scopes[s].recovered = StringPanic
        /\ scopes[s].pc = "done" /\ scopes[s].slot = NoErr
        /\ TxOf(s) # 0 /\ txs[TxOf(s)].state = "rolledback"
        /\ Len(Queue(s)) > 0

\* C35: when a callback panicked in the drain of a scope that attached its
\* own handle, cleanup had committed and the transaction is still committed,
\* *err is nil, the callbacks that stood after the panicking one in the copy
\* have not run, and the panic has left cleanup (the scope is not finished
\* in the ordinary way).
C35_CallbackPanicEscapes ==
    \A s \in DeferScopes : (scopes[s].cb # 0 /\ scopes[s].ctx # scopes[s].in) =>
        /\ scopes[s].pc = "panic"
        /\ scopes[s].slot = NoErr
        /\ scopes[s].req = "commit" /\ scopes[s].reqErr = NoErr
        /\ TxOf(s) # 0 /\ txs[TxOf(s)].state = "committed"
        /\ Count(log, scopes[s].cb) = 1
        /\ \A i \in 1..Len(scopes[s].snap) : Count(log, scopes[s].snap[i]) = 0

C35_Witness ==
    \E s \in DeferScopes :
        /\ scopes[s].ctx # scopes[s].in
        /\ scopes[s].pc = "panic" /\ scopes[s].cb # 0
        /\ scopes[s].hasSlot
        /\ Len(scopes[s].snap) = 1
        /\ txs[TxOf(s)].state = "committed"

\* C31 (as claimed): however many times the cleanup of a scope is called, a
\* callback registered on the scope's context has run at most once.
C31_AtMostOnce ==
    \A s \in DeferScopes : scopes[s].ctx.kind = "stx" =>
        \A i \in 1..Len(Queue(s)) : Count(log, Queue(s)[i]) <= 1

\* C32 (as claimed): a callback queued on a handle has run only if the
\* handle is bound to a transaction of the store and that transaction is
\* committed.
C32_OnlyFromCommitted ==
    \A s \in DeferScopes : scopes[s].ctx.kind = "stx" =>
        \A i \in 1..Len(Queue(s)) :
            Count(log, Queue(s)[i]) > 0 =>
                (TxOf(s) # 0 /\ txs[TxOf(s)].state = "committed")
====
